---------------------------- MODULE Spec2Model ----------------------------
(***************************************************************************)
(* Model of autointelli/__init__.py: the module-level state created at     *)
(* import (login_manager, migrate, mail, the serializer s), the factory    *)
(* create_app() executed statement group by statement group, the           *)
(* user-loader callback it registers, and the routing surface of the       *)
(* blueprints it registers.                                                *)
(*                                                                         *)
(* Strings that the code parses (MAIL_PORT, the user id) are tuples of     *)
(* one-character strings; strings that the code only stores or tests for   *)
(* truthiness are TLA+ strings.  Python's None is the string None.         *)
(***************************************************************************)
EXTENDS Integers, Sequences, FiniteSets, TLC

VARIABLES
    pc,             \* 0: no create_app() running; i > 0: about to run Order[i]
    calls,          \* number of create_app() calls started so far
    env,            \* the environment values the running call has read
    app,            \* the instance the latest call built (or is building)
    log,            \* messages the latest call logged
    s,              \* the module-level serializer
    s_history,      \* every value written to the global s, in order
    db_apps,        \* instances db.init_app() ran against
    migrate_inits,  \* arguments of every migrate.init_app() call
    login_manager,  \* the module-level LoginManager
    mail_apps,      \* instances mail.init_app() ran against
    served,         \* instances returned to the caller
    last            \* outcome of the latest operation

vars == <<pc, calls, env, app, log, s, s_history, db_apps, migrate_inits,
          login_manager, mail_apps, served, last>>

\* Number of create_app() calls explored in one process.
MaxCalls == 2

None == "None"
Unread == "<unread>"

\* ------------------------------------------------------------------------
\* Python helpers

\* A value handed to int(): Python None, an int, or a str (tuple of chars).
PyNone == [type |-> "NoneType", chars |-> <<>>, int |-> 0]
PyInt(n) == [type |-> "int", chars |-> <<>>, int |-> n]
PyStr(cs) == [type |-> "str", chars |-> cs, int |-> 0]
UnreadVal == [type |-> "unread", chars |-> <<>>, int |-> 0]

Digits == <<"0", "1", "2", "3", "4", "5", "6", "7", "8", "9">>

IsDigit(c) == \E i \in 1..10 : Digits[i] = c

DigitVal(c) == (CHOOSE i \in 1..10 : Digits[i] = c) - 1

IsSpace(c) == c = " "

RECURSIVE LStrip(_)
LStrip(cs) ==
    IF cs # <<>> /\ IsSpace(Head(cs)) THEN LStrip(Tail(cs)) ELSE cs

RECURSIVE RStrip(_)
RStrip(cs) ==
    IF cs # <<>> /\ IsSpace(cs[Len(cs)])
    THEN RStrip(SubSeq(cs, 1, Len(cs) - 1))
    ELSE cs

Strip(cs) == RStrip(LStrip(cs))

\* The digit part of an integer literal: digits, single underscores allowed
\* between two digits only.
ValidDigits(cs) ==
    /\ cs # <<>>
    /\ \A i \in 1..Len(cs) :
          \/ IsDigit(cs[i])
          \/ /\ cs[i] = "_"
             /\ i > 1 /\ i < Len(cs)
             /\ IsDigit(cs[i - 1]) /\ IsDigit(cs[i + 1])

RECURSIVE DigitsValue(_, _)
DigitsValue(cs, acc) ==
    IF cs = <<>> THEN acc
    ELSE IF Head(cs) = "_" THEN DigitsValue(Tail(cs), acc)
    ELSE DigitsValue(Tail(cs), 10 * acc + DigitVal(Head(cs)))

\* int(str) in base 10.
ParseInt(cs) ==
    LET t == Strip(cs)
        signed == t # <<>> /\ Head(t) \in {"+", "-"}
        body == IF signed THEN Tail(t) ELSE t
    IN  IF ValidDigits(body)
        THEN [ok |-> TRUE, exc |-> "",
              val |-> IF signed /\ Head(t) = "-"
                      THEN 0 - DigitsValue(body, 0)
                      ELSE DigitsValue(body, 0)]
        ELSE [ok |-> FALSE, exc |-> "ValueError", val |-> 0]

\* int(v): TypeError for None, identity on an int, parse of a str.
int(v) ==
    CASE v.type = "NoneType" -> [ok |-> FALSE, exc |-> "TypeError", val |-> 0]
      [] v.type = "int" -> [ok |-> TRUE, exc |-> "", val |-> v.int]
      [] OTHER -> ParseInt(v.chars)

\* str.lower() on the flag values the environments below use.
Lower(x) ==
    CASE x = "True" -> "true"
      [] x = "TRUE" -> "true"
      [] x = "False" -> "false"
      [] OTHER -> x

\* Python truthiness of an Optional[str].
Truthy(x) == x # None /\ x # ""

\* os.environ.get(name, default) for a value v read from the environment.
EnvGet(v, default) == IF v = None THEN default ELSE v

\* ------------------------------------------------------------------------
\* The environments explored.  None is an unset variable.

SecretKeys == {None, "k1"}

DatabaseUrls == {None, "", "postgresql://db/autointelli"}

MailPorts ==
    { PyNone,
      PyStr(<<"5", "8", "7">>),
      PyStr(<<" ", "2", "_", "5", " ">>),
      PyStr(<<"-", "1">>),
      PyStr(<<"n", "o", "t", "-", "a", "-", "n", "u", "m", "b", "e", "r">>),
      PyStr(<<>>) }

MailUsernames == {None, "ventas@example.com"}

MailPasswords == {None, "hunter2"}

NotionKeys == {None, "", "secret_abc"}

\* What the notion_client.Client constructor does when it is called.
ClientOutcomes == {"ok", "raises"}

\* The variables that are only copied into the configuration, taken together:
\* all unset, all set to well-formed values, all set to malformed values.
OtherEnvs ==
    { [MAIL_SERVER |-> None, MAIL_USE_TLS |-> None, MAIL_USE_SSL |-> None,
       MAIL_DEFAULT_SENDER |-> None, DATABASE_ID_PROYECTOS |-> None,
       DATABASE_ID_PARTIDAS |-> None, DATABASE_ID_PLANES |-> None,
       DATABASE_ID |-> None, DATABASE_ID_2 |-> None],
      [MAIL_SERVER |-> "smtp.example.com", MAIL_USE_TLS |-> "TRUE",
       MAIL_USE_SSL |-> "False", MAIL_DEFAULT_SENDER |-> "no-reply@example.com",
       DATABASE_ID_PROYECTOS |-> "db-proyectos",
       DATABASE_ID_PARTIDAS |-> "db-partidas", DATABASE_ID_PLANES |-> "db-planes",
       DATABASE_ID |-> "db-materiales-1", DATABASE_ID_2 |-> "db-materiales-2"],
      [MAIL_SERVER |-> "", MAIL_USE_TLS |-> "yes", MAIL_USE_SSL |-> "",
       MAIL_DEFAULT_SENDER |-> "", DATABASE_ID_PROYECTOS |-> "",
       DATABASE_ID_PARTIDAS |-> "", DATABASE_ID_PLANES |-> "",
       DATABASE_ID |-> "", DATABASE_ID_2 |-> ""] }

UnreadOthers ==
    [MAIL_SERVER |-> Unread, MAIL_USE_TLS |-> Unread, MAIL_USE_SSL |-> Unread,
     MAIL_DEFAULT_SENDER |-> Unread, DATABASE_ID_PROYECTOS |-> Unread,
     DATABASE_ID_PARTIDAS |-> Unread, DATABASE_ID_PLANES |-> Unread,
     DATABASE_ID |-> Unread, DATABASE_ID_2 |-> Unread]

UnreadEnv ==
    [SECRET_KEY |-> Unread, DATABASE_URL |-> Unread, MAIL_PORT |-> UnreadVal,
     MAIL_USERNAME |-> Unread, MAIL_PASSWORD |-> Unread,
     NOTION_API_KEY |-> Unread, client |-> "not called", others |-> UnreadOthers]

\* ------------------------------------------------------------------------
\* Objects

DefaultMailPort == 465

NotionTimeoutMs == 60000

\* URLSafeTimedSerializer(secret_key), tagged with the statement that built it.
URLSafeTimedSerializer(secret_key, site) == [secret |-> secret_key, site |-> site]

\* The serializer the module builds when it is imported.
PlaceholderSerializer == URLSafeTimedSerializer("default_secret_key", "import")

\* An instance without a url_serializer attribute.
NoSerializer == [secret |-> None, site |-> "unset"]

\* notion_client.Client(auth=..., timeout_ms=...).
Client(auth, timeout_ms) == [present |-> TRUE, auth |-> auth, timeout_ms |-> timeout_ms]

NoClient == [present |-> FALSE, auth |-> None, timeout_ms |-> 0]

\* Flask(__name__, ...): a fresh instance; Flask's default configuration has
\* SECRET_KEY = None and none of the other keys.
Flask(id) ==
    [id |-> id,
     keys |-> {"SECRET_KEY"},
     config |-> [SECRET_KEY |-> None, SQLALCHEMY_DATABASE_URI |-> None,
                 SQLALCHEMY_TRACK_MODIFICATIONS |-> TRUE,
                 MAIL_SERVER |-> None, MAIL_PORT |-> 0,
                 MAIL_USE_TLS |-> FALSE, MAIL_USE_SSL |-> FALSE,
                 MAIL_USERNAME |-> None, MAIL_PASSWORD |-> None,
                 MAIL_DEFAULT_SENDER |-> None, NOTION_API_KEY |-> None,
                 DATABASE_ID_PROYECTOS |-> None, DATABASE_ID_PARTIDAS |-> None,
                 DATABASE_ID_PLANES |-> None, DATABASE_ID_MATERIALES_DB1 |-> None,
                 DATABASE_ID_MATERIALES_DB2 |-> None],
     notion_client |-> NoClient,
     url_serializer |-> NoSerializer,
     blueprints |-> <<>>]

\* No instance has been built yet.
NoApp == [Flask(0) EXCEPT !.keys = {}]

\* The outcome record of an operation.
NoOutcome ==
    [op |-> "none", kind |-> "none", exc |-> "", app |-> 0, arg |-> PyNone,
     matched |-> {}, val |-> None, logged |-> FALSE]

\* ------------------------------------------------------------------------
\* The statements of create_app(), as operators

\* Order with the DATABASE_URL check moved below the extension initialisation.
OrderCheckAfterExtensions ==
    << "secret_key", "database_url", "mail_port", "mail_config",
       "notion_config", "notion_client", "init_db", "init_migrate",
       "init_login", "init_mail", "check_database_url", "serializer",
       "login_config", "blueprints", "return" >>

\* Order with migrate.init_app() ahead of db.init_app().
OrderMigrateBeforeDb ==
    << "secret_key", "database_url", "check_database_url", "mail_port",
       "mail_config", "notion_config", "notion_client", "init_migrate",
       "init_db", "init_login", "init_mail", "serializer",
       "login_config", "blueprints", "return" >>

\* Order with the serializer also rebuilt right after SECRET_KEY is read.
OrderSerializerTwice ==
    << "secret_key", "serializer", "database_url", "check_database_url",
       "mail_port", "mail_config", "notion_config", "notion_client", "init_db",
       "init_migrate", "init_login", "init_mail", "serializer",
       "login_config", "blueprints", "return" >>

\* The statement groups of create_app() in program order, after the instance
\* has been constructed.
Order ==
    << "secret_key", "database_url", "check_database_url", "mail_port",
       "mail_config", "notion_config", "notion_client", "init_db",
       "init_migrate", "init_login", "init_mail", "serializer",
       "login_config", "blueprints", "return" >>

\* The check written as `if database_url == ""`.
DatabaseUrlMissingEmptyOnly(database_url) == database_url = ""

\* `if not database_url`
DatabaseUrlMissing(database_url) == ~Truthy(database_url)

\* MailPort with `except TypeError` in place of `except ValueError`.
MailPortWrongExcept(raw) ==
    LET r == int(IF raw.type = "NoneType" THEN PyInt(DefaultMailPort) ELSE raw)
    IN  IF r.ok THEN [raised |-> FALSE, exc |-> "", port |-> r.val, warned |-> FALSE]
        ELSE IF r.exc = "TypeError"
        THEN [raised |-> FALSE, exc |-> "", port |-> DefaultMailPort, warned |-> TRUE]
        ELSE [raised |-> TRUE, exc |-> r.exc, port |-> 0, warned |-> FALSE]

\* MailPort whose fallback keeps the SMTP submission port and stays silent.
MailPortWrongFallback(raw) ==
    LET r == int(IF raw.type = "NoneType" THEN PyInt(DefaultMailPort) ELSE raw)
    IN  IF r.ok THEN [raised |-> FALSE, exc |-> "", port |-> r.val, warned |-> FALSE]
        ELSE [raised |-> FALSE, exc |-> "", port |-> 587, warned |-> FALSE]

\* try: int(os.environ.get('MAIL_PORT', 465)) / except ValueError: 465 + warning.
\* An exception other than ValueError is not handled by the except clause.
MailPort(raw) ==
    LET r == int(IF raw.type = "NoneType" THEN PyInt(DefaultMailPort) ELSE raw)
    IN  IF r.ok THEN [raised |-> FALSE, exc |-> "", port |-> r.val, warned |-> FALSE]
        ELSE IF r.exc = "ValueError"
        THEN [raised |-> FALSE, exc |-> "", port |-> DefaultMailPort, warned |-> TRUE]
        ELSE [raised |-> TRUE, exc |-> r.exc, port |-> 0, warned |-> FALSE]

\* `os.environ.get('MAIL_USE_TLS', 'False').lower() == 'true'`
FlagIsTrue(v, default) == Lower(EnvGet(v, default)) = "true"

\* The Notion block without its try/except.
NotionClientUncaught(api_key, outcome) ==
    IF Truthy(api_key)
    THEN IF outcome = "ok"
         THEN [called |-> TRUE, raised |-> FALSE,
               client |-> Client(api_key, NotionTimeoutMs),
               log |-> {"debug: NOTION_API_KEY found", "debug: Notion client initialised"}]
         ELSE [called |-> TRUE, raised |-> TRUE, client |-> NoClient,
               log |-> {"debug: NOTION_API_KEY found"}]
    ELSE [called |-> FALSE, raised |-> FALSE, client |-> NoClient,
          log |-> {"warning: NOTION_API_KEY not found"}]

\* The Notion block: the handle starts as None; the constructor is called only
\* if the configured key is truthy; `except Exception` leaves the handle None.
\* outcome is what the constructor does if it is called.
NotionClient(api_key, outcome) ==
    IF Truthy(api_key)
    THEN IF outcome = "ok"
         THEN [called |-> TRUE, raised |-> FALSE,
               client |-> Client(api_key, NotionTimeoutMs),
               log |-> {"debug: NOTION_API_KEY found", "debug: Notion client initialised"}]
         ELSE [called |-> TRUE, raised |-> FALSE, client |-> NoClient,
               log |-> {"debug: NOTION_API_KEY found", "error: Notion client"}]
    ELSE [called |-> FALSE, raised |-> FALSE, client |-> NoClient,
          log |-> {"warning: NOTION_API_KEY not found"}]

\* `migrate.init_app(app, db)`: the arguments of the call.
MigrateInitArgs(a) == [app |-> a.id, db |-> "db"]

\* `app.config.get(key, default)` for SECRET_KEY.
ConfigGetSecretKey(a, default) ==
    IF "SECRET_KEY" \in a.keys THEN a.config.SECRET_KEY ELSE default

\* The refresh that attaches the import-time serializer unchanged.
FinalSerializerStale(a) == PlaceholderSerializer

\* `URLSafeTimedSerializer(app.config.get('SECRET_KEY', ...))`
FinalSerializer(a) ==
    URLSafeTimedSerializer(ConfigGetSecretKey(a, "default_fallback_secret_again"),
                           "create_app")

\* The blueprints in registration order.
Blueprints ==
    << "main", "auth", "solicitudes", "ajustes", "proyectos", "accesorios",
       "almacen", "compras" >>

\* UrlPrefix with almacen_bp registered under the prefix of accesorios_bp.
UrlPrefixCopied(name) ==
    CASE name = "main" -> <<>>
      [] name = "auth" -> <<"auth">>
      [] name = "solicitudes" -> <<"solicitudes">>
      [] name = "ajustes" -> <<"ajustes">>
      [] name = "proyectos" -> <<"proyectos">>
      [] name = "accesorios" -> <<"accesorios">>
      [] name = "almacen" -> <<"accesorios">>
      [] name = "compras" -> <<"compras">>

\* The url_prefix each blueprint is registered under, as path segments;
\* main_bp is registered without a prefix.
UrlPrefix(name) ==
    CASE name = "main" -> <<>>
      [] name = "auth" -> <<"auth">>
      [] name = "solicitudes" -> <<"solicitudes">>
      [] name = "ajustes" -> <<"ajustes">>
      [] name = "proyectos" -> <<"proyectos">>
      [] name = "accesorios" -> <<"accesorios">>
      [] name = "almacen" -> <<"almacen">>
      [] name = "compras" -> <<"compras">>

\* The eight register_blueprint calls.
RegisterBlueprints ==
    [i \in 1..Len(Blueprints) |->
        [name |-> Blueprints[i], url_prefix |-> UrlPrefix(Blueprints[i])]]

\* A path (sequence of segments) lies under a url_prefix.
HasPrefix(path, prefix) ==
    /\ Len(prefix) <= Len(path)
    /\ SubSeq(path, 1, Len(prefix)) = prefix

\* The blueprints of an instance whose prefix a path matches.
Matching(blueprints, path) ==
    { blueprints[i].name : i \in { j \in 1..Len(blueprints) :
                                     HasPrefix(path, blueprints[j].url_prefix) } }

\* The exceptions load_user's except clause handles.
Handled(exc) == exc \in {"ValueError", "TypeError"}

\* load_user(user_id): int(user_id), then db.session.get(User, id), whose
\* behaviour is lookup; (ValueError, TypeError) are logged and give None.
LoadUserResult(user_id, lookup) ==
    LET r == int(user_id)
        exc == IF ~r.ok THEN r.exc
               ELSE IF lookup.kind = "raises" THEN lookup.exc ELSE ""
    IN  IF exc = ""
        THEN [kind |-> "returned", exc |-> "", val |-> lookup.val, logged |-> FALSE]
        ELSE IF Handled(exc)
        THEN [kind |-> "returned", exc |-> "", val |-> None, logged |-> TRUE]
        ELSE [kind |-> "raised", exc |-> exc, val |-> None, logged |-> FALSE]

\* What is kept of an instance once it has been returned: the attributes
\* request handling reads.
Summary(a) ==
    [id |-> a.id, SECRET_KEY |-> a.config.SECRET_KEY,
     url_serializer |-> a.url_serializer, blueprints |-> a.blueprints]

\* ------------------------------------------------------------------------
\* Inputs of the operations that run after start-up

UserIds ==
    { PyStr(<<"1">>),
      PyStr(<<" ", "4", "2">>),
      PyStr(<<"n", "o", "t", "-", "a", "n", "-", "i", "n", "t", "e", "g", "e", "r">>),
      PyNone }

\* What db.session.get(User, id) does: a row, no row, or a database error.
Lookups ==
    { [kind |-> "found", val |-> "User", exc |-> ""],
      [kind |-> "missing", val |-> None, exc |-> ""],
      [kind |-> "raises", val |-> None, exc |-> "OperationalError"] }

Paths ==
    { <<>>, <<"auth">>, <<"auth", "login">>, <<"almacen">>,
      <<"almacen", "auth">>, <<"inventario">>, <<"compras", "7">> }

\* ------------------------------------------------------------------------
\* State machine

Init ==
    /\ pc = 0
    /\ calls = 0
    /\ env = UnreadEnv
    /\ app = NoApp
    /\ log = {}
    /\ s = PlaceholderSerializer
    /\ s_history = <<PlaceholderSerializer>>
    /\ db_apps = {}
    /\ migrate_inits = {}
    /\ login_manager = [apps |-> {}, login_view |-> None,
                        login_message_category |-> "message",
                        login_message |-> "Please log in to access this page.",
                        user_callback |-> 0]
    /\ mail_apps = {}
    /\ served = {}
    /\ last = NoOutcome

Step(label) == pc > 0 /\ pc <= Len(Order) /\ Order[pc] = label

Globals == <<s, s_history, db_apps, migrate_inits, login_manager, mail_apps>>

\* An exception leaves create_app(): nothing is returned to the caller.
Raise(exc) ==
    /\ pc' = 0
    /\ last' = [NoOutcome EXCEPT !.op = "create_app", !.kind = "raised",
                                 !.exc = exc, !.app = app.id]

\* create_app() is entered: load_dotenv(), the asset directories, Flask(...).
CreateApp ==
    /\ pc = 0
    /\ calls < MaxCalls
    /\ calls' = calls + 1
    /\ pc' = 1
    /\ env' = UnreadEnv
    /\ app' = Flask(calls + 1)
    /\ log' = {}
    /\ last' = NoOutcome
    /\ UNCHANGED <<Globals, served>>

\* app.config['SECRET_KEY'] = os.environ.get('SECRET_KEY', <default literal>)
SecretKey ==
    /\ Step("secret_key")
    /\ \E v \in SecretKeys :
          /\ env' = [env EXCEPT !.SECRET_KEY = v]
          /\ app' = [app EXCEPT
                !.config.SECRET_KEY =
                    EnvGet(v, "una_clave_secreta_por_defecto_muy_segura_cambiar_en_produccion"),
                !.keys = @ \cup {"SECRET_KEY"}]
    /\ pc' = pc + 1
    /\ UNCHANGED <<calls, log, Globals, served, last>>

\* database_url = os.environ.get('DATABASE_URL'); the two SQLALCHEMY_ keys.
DatabaseUrl ==
    /\ Step("database_url")
    /\ \E v \in DatabaseUrls :
          /\ env' = [env EXCEPT !.DATABASE_URL = v]
          /\ app' = [app EXCEPT
                !.config.SQLALCHEMY_DATABASE_URI = v,
                !.config.SQLALCHEMY_TRACK_MODIFICATIONS = FALSE,
                !.keys = @ \cup {"SQLALCHEMY_DATABASE_URI",
                                 "SQLALCHEMY_TRACK_MODIFICATIONS"}]
    /\ log' = log \cup {"debug: SQLALCHEMY_DATABASE_URI"}
    /\ pc' = pc + 1
    /\ UNCHANGED <<calls, Globals, served, last>>

\* if not database_url: print(...); raise EnvironmentError(...)
CheckDatabaseUrl ==
    /\ Step("check_database_url")
    /\ IF DatabaseUrlMissing(env.DATABASE_URL)
       THEN /\ Raise("EnvironmentError")
            /\ log' = log \cup {"print: ERROR FATAL"}
       ELSE /\ pc' = pc + 1
            /\ UNCHANGED <<log, last>>
    /\ UNCHANGED <<calls, env, app, Globals, served>>

\* MAIL_SERVER and the try/except around MAIL_PORT.
MailPortStep ==
    /\ Step("mail_port")
    /\ \E o \in OtherEnvs, raw \in MailPorts :
          LET r == MailPort(raw) IN
          /\ env' = [env EXCEPT !.others = o, !.MAIL_PORT = raw]
          /\ IF r.raised
             THEN /\ Raise(r.exc)
                  /\ app' = [app EXCEPT
                        !.config.MAIL_SERVER = EnvGet(o.MAIL_SERVER, "smtp.gmail.com"),
                        !.keys = @ \cup {"MAIL_SERVER"}]
                  /\ UNCHANGED log
             ELSE /\ app' = [app EXCEPT
                        !.config.MAIL_SERVER = EnvGet(o.MAIL_SERVER, "smtp.gmail.com"),
                        !.config.MAIL_PORT = r.port,
                        !.keys = @ \cup {"MAIL_SERVER", "MAIL_PORT"}]
                  /\ log' = IF r.warned THEN log \cup {"warning: MAIL_PORT"} ELSE log
                  /\ pc' = pc + 1
                  /\ UNCHANGED last
    /\ UNCHANGED <<calls, Globals, served>>

\* MAIL_USE_TLS .. MAIL_DEFAULT_SENDER and the incomplete-credentials warning.
MailConfig ==
    /\ Step("mail_config")
    /\ \E u \in MailUsernames, p \in MailPasswords :
          /\ env' = [env EXCEPT !.MAIL_USERNAME = u, !.MAIL_PASSWORD = p]
          /\ app' = [app EXCEPT
                !.config.MAIL_USE_TLS = FlagIsTrue(env.others.MAIL_USE_TLS, "False"),
                !.config.MAIL_USE_SSL = FlagIsTrue(env.others.MAIL_USE_SSL, "True"),
                !.config.MAIL_USERNAME = u,
                !.config.MAIL_PASSWORD = p,
                !.config.MAIL_DEFAULT_SENDER = EnvGet(env.others.MAIL_DEFAULT_SENDER, u),
                !.keys = @ \cup {"MAIL_USE_TLS", "MAIL_USE_SSL", "MAIL_USERNAME",
                                 "MAIL_PASSWORD", "MAIL_DEFAULT_SENDER"}]
          /\ log' = IF ~Truthy(u) \/ ~Truthy(p)
                    THEN log \cup {"warning: mail credentials"}
                    ELSE log
    /\ pc' = pc + 1
    /\ UNCHANGED <<calls, Globals, served, last>>

\* NOTION_API_KEY and the five database identifiers.
NotionConfig ==
    /\ Step("notion_config")
    /\ \E k \in NotionKeys :
          /\ env' = [env EXCEPT !.NOTION_API_KEY = k]
          /\ app' = [app EXCEPT
                !.config.NOTION_API_KEY = k,
                !.config.DATABASE_ID_PROYECTOS = env.others.DATABASE_ID_PROYECTOS,
                !.config.DATABASE_ID_PARTIDAS = env.others.DATABASE_ID_PARTIDAS,
                !.config.DATABASE_ID_PLANES = env.others.DATABASE_ID_PLANES,
                !.config.DATABASE_ID_MATERIALES_DB1 = env.others.DATABASE_ID,
                !.config.DATABASE_ID_MATERIALES_DB2 = env.others.DATABASE_ID_2,
                !.keys = @ \cup {"NOTION_API_KEY", "DATABASE_ID_PROYECTOS",
                                 "DATABASE_ID_PARTIDAS", "DATABASE_ID_PLANES",
                                 "DATABASE_ID_MATERIALES_DB1",
                                 "DATABASE_ID_MATERIALES_DB2"}]
    /\ pc' = pc + 1
    /\ UNCHANGED <<calls, log, Globals, served, last>>

\* app.notion_client = None; if the key is set, try Client(...).
NotionClientStep ==
    /\ Step("notion_client")
    /\ \E outcome \in ClientOutcomes :
          LET r == NotionClient(app.config.NOTION_API_KEY, outcome) IN
          /\ env' = [env EXCEPT !.client = IF r.called THEN outcome ELSE "not called"]
          /\ app' = [app EXCEPT !.notion_client = r.client]
          /\ IF r.raised
             THEN /\ Raise("Exception")
                  /\ UNCHANGED log
             ELSE /\ log' = log \cup r.log
                  /\ pc' = pc + 1
                  /\ UNCHANGED last
    /\ UNCHANGED <<calls, Globals, served>>

\* db.init_app(app)
InitDb ==
    /\ Step("init_db")
    /\ db_apps' = db_apps \cup {app.id}
    /\ pc' = pc + 1
    /\ UNCHANGED <<calls, env, app, log, s, s_history, migrate_inits,
                   login_manager, mail_apps, served, last>>

\* migrate.init_app(app, db)
InitMigrate ==
    /\ Step("init_migrate")
    /\ migrate_inits' = migrate_inits \cup {MigrateInitArgs(app)}
    /\ pc' = pc + 1
    /\ UNCHANGED <<calls, env, app, log, s, s_history, db_apps,
                   login_manager, mail_apps, served, last>>

\* login_manager.init_app(app)
InitLogin ==
    /\ Step("init_login")
    /\ login_manager' = [login_manager EXCEPT !.apps = @ \cup {app.id}]
    /\ pc' = pc + 1
    /\ UNCHANGED <<calls, env, app, log, s, s_history, db_apps,
                   migrate_inits, mail_apps, served, last>>

\* mail.init_app(app)
InitMail ==
    /\ Step("init_mail")
    /\ mail_apps' = mail_apps \cup {app.id}
    /\ pc' = pc + 1
    /\ UNCHANGED <<calls, env, app, log, s, s_history, db_apps,
                   migrate_inits, login_manager, served, last>>

\* global s; s = URLSafeTimedSerializer(...); app.url_serializer = s
SerializerRefresh ==
    /\ Step("serializer")
    /\ s' = FinalSerializer(app)
    /\ s_history' = Append(s_history, s')
    /\ app' = [app EXCEPT !.url_serializer = s']
    /\ pc' = pc + 1
    /\ UNCHANGED <<calls, env, log, db_apps, migrate_inits, login_manager,
                   mail_apps, served, last>>

\* The three login_manager settings and @login_manager.user_loader.
LoginConfig ==
    /\ Step("login_config")
    /\ login_manager' = [login_manager EXCEPT
            !.login_view = "auth.login",
            !.login_message_category = "info",
            !.login_message = "Por favor, inicia sesion para acceder a esta pagina.",
            !.user_callback = app.id]
    /\ pc' = pc + 1
    /\ UNCHANGED <<calls, env, app, log, s, s_history, db_apps,
                   migrate_inits, mail_apps, served, last>>

\* The eight app.register_blueprint(...) calls.
RegisterBlueprintsStep ==
    /\ Step("blueprints")
    /\ app' = [app EXCEPT !.blueprints = @ \o RegisterBlueprints]
    /\ pc' = pc + 1
    /\ UNCHANGED <<calls, env, log, Globals, served, last>>

\* return app
Return ==
    /\ Step("return")
    /\ pc' = 0
    /\ served' = served \cup {Summary(app)}
    /\ last' = [NoOutcome EXCEPT !.op = "create_app", !.kind = "returned",
                                 !.app = app.id, !.val = "app"]
    /\ UNCHANGED <<calls, env, app, log, Globals>>

\* Flask-Login resolves the session's user id through the registered callback.
LoadUser ==
    /\ pc = 0
    /\ served # {}
    /\ login_manager.user_callback # 0
    /\ \E user_id \in UserIds, lookup \in Lookups :
          LET r == LoadUserResult(user_id, lookup) IN
          last' = [NoOutcome EXCEPT !.op = "load_user", !.kind = r.kind,
                                    !.exc = r.exc, !.val = r.val,
                                    !.logged = r.logged, !.arg = user_id,
                                    !.app = login_manager.user_callback]
    /\ UNCHANGED <<pc, calls, env, app, log, Globals, served>>

\* A returned instance receives a request for a path.
Request ==
    /\ pc = 0
    /\ \E inst \in served, path \in Paths :
          last' = [NoOutcome EXCEPT !.op = "request", !.kind = "returned",
                                    !.app = inst.id, !.arg = PyStr(path),
                                    !.matched = Matching(inst.blueprints, path)]
    /\ UNCHANGED <<pc, calls, env, app, log, Globals, served>>

Next ==
    \/ CreateApp
    \/ SecretKey
    \/ DatabaseUrl
    \/ CheckDatabaseUrl
    \/ MailPortStep
    \/ MailConfig
    \/ NotionConfig
    \/ NotionClientStep
    \/ InitDb
    \/ InitMigrate
    \/ InitLogin
    \/ InitMail
    \/ SerializerRefresh
    \/ LoginConfig
    \/ RegisterBlueprintsStep
    \/ Return
    \/ LoadUser
    \/ Request

Spec == Init /\ [][Next]_vars

\* ------------------------------------------------------------------------
\* Properties

\* The latest operation was a create_app() call, which has ended.
Finished == pc = 0 /\ last.op = "create_app"

Returned == Finished /\ last.kind = "returned"

Raised == Finished /\ last.kind = "raised"

ServedIds == { inst.id : inst \in served }

NotANumber == PyStr(<<"n", "o", "t", "-", "a", "-", "n", "u", "m", "b", "e", "r">>)

NotAnInteger ==
    PyStr(<<"n", "o", "t", "-", "a", "n", "-", "i", "n", "t", "e", "g", "e", "r">>)

\* C1: whenever the running or latest create_app() call read an unset
\* DATABASE_URL, the call gets no further than the check, it ends by raising
\* EnvironmentError, and its instance is never handed to the caller.
C1_MissingDatabaseUrlRaises ==
    env.DATABASE_URL = None =>
        /\ app.id \notin ServedIds
        /\ pc > 0 => Order[pc] = "check_database_url"
        /\ Finished => last.kind = "raised" /\ last.exc = "EnvironmentError"

C1_Witness ==
    /\ Finished
    /\ env.DATABASE_URL = None
    /\ last.kind = "raised"
    /\ last.exc = "EnvironmentError"

\* C8: when create_app() has failed with the EnvironmentError of the missing
\* DATABASE_URL, none of db, migrate, login_manager and mail has been
\* initialised against the instance of that call.
C8_FatalBeforeExtensions ==
    (Raised /\ last.exc = "EnvironmentError") =>
        /\ app.id \notin db_apps
        /\ app.id \notin { m.app : m \in migrate_inits }
        /\ app.id \notin login_manager.apps
        /\ app.id \notin mail_apps

C8_Witness ==
    /\ Raised
    /\ last.exc = "EnvironmentError"
    /\ ~Truthy(env.DATABASE_URL)
    /\ db_apps # {}
    /\ app.id \notin db_apps

\* C10: every migrate.init_app() call was given the db object and an instance
\* db.init_app() had already run against, and a create_app() call that
\* returned has made both calls.
C10_OrmBeforeMigrate ==
    /\ \A m \in migrate_inits : m.db = "db" /\ m.app \in db_apps
    /\ Returned =>
          /\ app.id \in db_apps
          /\ MigrateInitArgs(app) \in migrate_inits

C10_Witness ==
    /\ Returned
    /\ app.id \in db_apps
    /\ [app |-> app.id, db |-> "db"] \in migrate_inits

\* C9: once MAIL_PORT has been processed, the configured port is 465 when the
\* variable is unset, the integer when it parses, and 465 with a logged
\* warning when it does not parse ("not-a-number" in particular); the call
\* never fails on it.
C9_MailPortFallback ==
    /\ "MAIL_PORT" \in app.keys =>
          /\ env.MAIL_PORT = PyNone => app.config.MAIL_PORT = 465
          /\ env.MAIL_PORT = PyStr(<<"5", "8", "7">>) => app.config.MAIL_PORT = 587
          /\ env.MAIL_PORT = PyStr(<<" ", "2", "_", "5", " ">>) => app.config.MAIL_PORT = 25
          /\ env.MAIL_PORT = PyStr(<<"-", "1">>) => app.config.MAIL_PORT = 0 - 1
          /\ (env.MAIL_PORT.type = "str" /\ int(env.MAIL_PORT).ok) =>
                app.config.MAIL_PORT = int(env.MAIL_PORT).val
          /\ (env.MAIL_PORT.type = "str" /\ ~int(env.MAIL_PORT).ok) =>
                /\ app.config.MAIL_PORT = 465
                /\ "warning: MAIL_PORT" \in log
          /\ env.MAIL_PORT = NotANumber =>
                /\ app.config.MAIL_PORT = 465
                /\ "warning: MAIL_PORT" \in log
    /\ (Finished /\ env.MAIL_PORT # UnreadVal) => last.kind = "returned"

C9_Witness ==
    /\ Returned
    /\ env.MAIL_PORT = NotANumber
    /\ app.config.MAIL_PORT = 465
    /\ "warning: MAIL_PORT" \in log

\* C5: the Client constructor is called only when NOTION_API_KEY was set; a
\* call that read an unset key, or whose constructor raised, still returns,
\* with the handle None; the handle is a client only when the key was set and
\* the constructor succeeded; no call fails in the Notion block.
C5_NotionNeverAborts ==
    /\ env.client # "not called" => env.NOTION_API_KEY \notin {None, Unread}
    /\ app.notion_client.present =>
          /\ env.NOTION_API_KEY \notin {None, Unread}
          /\ env.client = "ok"
    /\ (env.NOTION_API_KEY = None \/ env.client = "raises") =>
          /\ ~app.notion_client.present
          /\ Finished => last.kind = "returned"
    /\ Raised => env.NOTION_API_KEY = Unread

C5_Witness ==
    /\ Returned
    /\ env.NOTION_API_KEY = "secret_abc"
    /\ env.client = "raises"
    /\ ~app.notion_client.present

AllEight(blueprints) ==
    /\ Len(blueprints) = 8
    /\ { blueprints[i].name : i \in 1..Len(blueprints) } =
          {"main", "auth", "solicitudes", "ajustes", "proyectos", "accesorios",
           "almacen", "compras"}

\* C4 as stated: a create_app() call that read a set DATABASE_URL returns an
\* instance with all eight blueprints registered.
C4_SetDatabaseUrlReturns ==
    (Finished /\ env.DATABASE_URL \notin {None, Unread}) =>
        /\ last.kind = "returned"
        /\ AllEight(app.blueprints)

\* C4 amended: a create_app() call that read a set, non-empty DATABASE_URL
\* returns an instance with all eight blueprints registered, whatever the
\* other variables are; a call that failed read an unset or empty DATABASE_URL.
C4_NonEmptyDatabaseUrlReturns ==
    /\ (Finished /\ env.DATABASE_URL # Unread /\ Truthy(env.DATABASE_URL)) =>
          /\ last.kind = "returned"
          /\ app.id \in ServedIds
          /\ AllEight(app.blueprints)
    /\ Raised =>
          /\ last.exc = "EnvironmentError"
          /\ env.DATABASE_URL \in {None, ""}

C4_Witness ==
    /\ Returned
    /\ env.SECRET_KEY = None
    /\ env.MAIL_PORT = NotANumber
    /\ env.MAIL_USERNAME = None
    /\ env.NOTION_API_KEY = None
    /\ env.others.MAIL_USE_TLS = "yes"
    /\ AllEight(app.blueprints)

\* The instance returned most recently.
LatestServed == CHOOSE inst \in served : \A other \in served : other.id <= inst.id

\* C2 as stated: whenever requests can be handled, the global s is the
\* url_serializer of every returned instance, built by create_app() from
\* that instance's SECRET_KEY, and not the import-time placeholder.
C2_SerializerOfEveryInstance ==
    (pc = 0 /\ served # {}) =>
        \A inst \in served :
            /\ s # PlaceholderSerializer
            /\ s = inst.url_serializer
            /\ s = URLSafeTimedSerializer(inst.SECRET_KEY, "create_app")

\* C2 amended: whenever requests can be handled, the url_serializer of every
\* returned instance is the one create_app() built from that instance's
\* SECRET_KEY, the global s is the url_serializer of the instance returned
\* most recently, and neither is the import-time placeholder.
C2_SerializerOfLatestInstance ==
    (pc = 0 /\ served # {}) =>
        /\ s # PlaceholderSerializer
        /\ s = LatestServed.url_serializer
        /\ \A inst \in served :
              /\ inst.url_serializer # PlaceholderSerializer
              /\ inst.url_serializer =
                    URLSafeTimedSerializer(inst.SECRET_KEY, "create_app")

C2_Witness ==
    /\ pc = 0
    /\ \E a, b \in served :
          /\ a.id < b.id
          /\ a.SECRET_KEY # b.SECRET_KEY
          /\ s = b.url_serializer
          /\ s # a.url_serializer

\* The instances a serializer has been attached to.
Refreshed ==
    ServedIds \cup (IF app.url_serializer # NoSerializer THEN {app.id} ELSE {})

\* C7 as stated: the global s is written twice at most, the placeholder at
\* import and the final value during bootstrap.
C7_WrittenTwice == Len(s_history) <= 2

\* C7 amended: the global s is written once with the placeholder at import
\* and then exactly once, with the serializer of the final SECRET_KEY, in
\* each create_app() call that gets past the DATABASE_URL check; nothing
\* else writes it, and s is the value written last.
C7_WrittenOncePerBootstrap ==
    /\ s_history[1] = PlaceholderSerializer
    /\ Len(s_history) = 1 + Cardinality(Refreshed)
    /\ s = s_history[Len(s_history)]
    /\ \A i \in 2..Len(s_history) : s_history[i].site = "create_app"
    /\ Raised => app.id \notin Refreshed

C7_Witness ==
    /\ pc = 0
    /\ Len(s_history) = 3
    /\ Cardinality(served) = 2

\* C3: load_user never lets an exception out: a failed conversion or a failed
\* lookup is logged and gives None.
C3_LoadUserNeverRaises ==
    last.op = "load_user" =>
        /\ last.kind = "returned"
        /\ last.arg = NotAnInteger => last.val = None /\ last.logged

Segments ==
    {"auth", "solicitudes", "ajustes", "proyectos", "accesorios", "almacen",
     "compras", "inventario"}

\* Every path of at most two segments.
PathSpace == {<<>>} \cup {<<a>> : a \in Segments} \cup (Segments \X Segments)

\* The instance a request was sent to.
Requested == CHOOSE inst \in served : inst.id = last.app

\* C6 as stated: a request path matches the prefix of at most one of the
\* eight registered blueprints.
C6_AtMostOneOfEight ==
    last.op = "request" => Cardinality(last.matched) <= 1

\* C6 amended: a request path matches the prefix of at most one of the seven
\* blueprints registered with a url_prefix; main_bp, registered without one,
\* matches every path.
C6_AtMostOneOfSeven ==
    last.op = "request" =>
        /\ "main" \in last.matched
        /\ Cardinality(last.matched \ {"main"}) <= 1
        /\ \A path \in PathSpace :
              /\ "main" \in Matching(Requested.blueprints, path)
              /\ Cardinality(Matching(Requested.blueprints, path) \ {"main"}) <= 1

C6_Witness ==
    /\ last.op = "request"
    /\ last.arg = PyStr(<<"almacen", "auth">>)
    /\ last.matched = {"main", "almacen"}

=============================================================================
